---- MODULE Spec2Model ----
(***************************************************************************)
(* fedoratagger/lib/update.py: the fedoratagger-update-db job.             *)
(* One run = main(): import_koji_pkgs, update_summaries,                   *)
(* import_meta_applications, SESSION.commit().  The job is modelled as a   *)
(* sequential program; each loop iteration is one step; an uncaught        *)
(* exception ends the process before the commit.                           *)
(* Spec: runs one after the other, every run on sources of its own.        *)
(* SpecRepeat, SpecRepeatFair: every run sees the sources of the first.    *)
(* SpecOverlap: two processes of the job on one database.                  *)
(***************************************************************************)
EXTENDS Integers, Sequences, FiniteSets, TLC

\* ---- bounds of the model ----
MaxRuns == 2        \* runs of the job
MaxPackages == 2    \* length of the list koji returns
MaxRecords == 2     \* length of the curated document
MaxN == 1           \* largest --summaries-to-process
MaxTagged == 1      \* packages koji has under the bypass tag

\* ---- values ----
Names == {"a", "b", "c"}
None == "None"
Missing == "<no key>"
NoSummary == "(no summary)"

\* a Python 2 string object as it arrives from a collaborator
Encodings == {"str", "unicode"}
RawNames == [enc : Encodings, text : Names]
RawSummaries == [enc : {"str"}, text : {"", "y"}]

\* kitchen's to_unicode: a byte str is decoded, a unicode object is returned
\* as it is; either way the result is the text
to_unicode(obj) == obj.text

tagbp == 230

package_ids == [n \in Names |-> CASE n = "a" -> 1 [] n = "b" -> 2 [] OTHER -> 3]

KojiPackages == {[package_name |-> r, package_id |-> package_ids[r.text]] : r \in RawNames}

\* parsed YAML records; a key the record lacks is Missing; one record has an
\* empty summary (one name stands for any)
CuratedRecords ==
    [name : Names, summary : {"c", Missing}]
        \cup {[name |-> "a", summary |-> ""], [name |-> Missing, summary |-> Missing]}

SeqsUpTo(S, n) == UNION {[1..k -> S] : k \in 0..n}

VARIABLES
    db,         \* the committed package table, rows in insertion order
    db0,        \* the committed table when this run started
    session,    \* ft.SESSION's view: the table with this run's staged work
    pc,         \* where main is
    trace,      \* the steps of main entered in this run, in order
    exc,        \* the uncaught exception that ended the run, or None
    summaries_to_process,   \* args.summaries_to_process as main passes it
    url,        \* args.url_for_meta_applications, once main has passed it
    packages,   \* the list a pass iterates over
    tagged,     \* package ids koji reports a config for under tagbp
    yumq,       \* YumQuery: summary per name
    selected,   \* query.all(): row numbers of the Packages without a summary
    N,          \* update_summaries' N
    count,
    i,          \* how many items of the list the loop has consumed
    runs,
    sources,    \* what koji, yum, the command line and the curated url gave the
                \* first run, kept where every run is to see the same sources
    other       \* a second process of the job, while it is not the one stepping

vars == <<db, db0, session, pc, trace, exc, summaries_to_process, url, packages, tagged, yumq, selected,
          N, count, i, runs, sources, other>>

NoYum == [n \in Names |-> [enc |-> "str", text |-> ""]]

\* nothing kept: every run draws its sources anew
NoSources ==
    [fixed |-> FALSE, packages |-> <<>>, tagged |-> {}, summaries_to_process |-> 0,
     yumq |-> NoYum, url |-> None, failed |-> FALSE, doc |-> <<>>]

\* a process that has not started
Idle == [pc |-> "idle", session |-> <<>>, db0 |-> <<>>, trace |-> <<>>, exc |-> None, url |-> None]

\* the first run of fixed sources keeps what it draws; later runs get the same
Recording == sources.fixed /\ runs = 1

Replaying == sources.fixed /\ runs > 1

InitProcess ==
    /\ db0 = <<>>
    /\ session = <<>>
    /\ pc = "idle"
    /\ trace = <<>>
    /\ exc = None
    /\ summaries_to_process = 0
    /\ url = None
    /\ packages = <<>>
    /\ tagged = {}
    /\ yumq = NoYum
    /\ selected = <<>>
    /\ N = 0
    /\ count = 0
    /\ i = 0
    /\ runs = 0
    /\ other = Idle

Init == InitProcess /\ db = <<>> /\ sources = NoSources

\* the catalog earlier runs have left: empty, or with a package that has no
\* summary yet (one name stands for any)
StartCatalogs == {<<>>, <<[name |-> "a", summary |-> ""]>>}

\* the sources stay as the first run finds them
InitRepeat ==
    /\ InitProcess
    /\ db \in StartCatalogs
    /\ sources = [NoSources EXCEPT !.fixed = TRUE]

\* ---- the catalog ----

\* m.Package(name=..., summary=...)
Package(name, summary) == [name |-> name, summary |-> summary]

\* m.Package.by_name(session, name): the rows of that name the session sees
\* (staged adds included); no row is NoResultFound
by_name(sess, name) == {k \in 1..Len(sess) : sess[k].name = name}

NoResultFound(sess, name) == by_name(sess, name) = {}

\* ft.SESSION.add(p)
add(sess, p) == Append(sess, p)

\* ---- main ----

\* mutant of main_next: the commit moved up, before import_meta_applications
main_next_commit_early(step) ==
    CASE step = "import_koji_pkgs" -> "update_summaries"
      [] step = "update_summaries" -> "commit"
      [] step = "commit" -> "import_meta_applications"
      [] OTHER -> "exit"

\* the statements of main in order; "exit" is the normal end of the process
main_next(step) ==
    CASE step = "import_koji_pkgs" -> "update_summaries"
      [] step = "update_summaries" -> "import_meta_applications"
      [] step = "import_meta_applications" -> "commit"
      [] OTHER -> "exit"

\* mutant of main_uncaught: the exception is swallowed at the pass boundary
main_uncaught_swallowed(step) == main_next(step)

\* main has no handler: an exception leaving a pass ends the process
main_uncaught(step) == "raised"

\* the locals of a pass are gone when it is left
ClearLocals ==
    /\ packages' = <<>>
    /\ tagged' = {}
    /\ yumq' = NoYum
    /\ selected' = <<>>
    /\ count' = 0
    /\ i' = 0

MainSteps == {"import_koji_pkgs", "update_summaries", "import_meta_applications", "commit"}

\* main goes on to its next statement; a call binds the argument main passes:
\* update_summaries(int(args.summaries_to_process)),
\* import_meta_applications(args.url_for_meta_applications)
Goto(target) ==
    /\ pc' = target
    /\ trace' = IF target \in MainSteps THEN Append(trace, target) ELSE trace
    /\ summaries_to_process' \in
          IF target # "update_summaries" THEN {0}
          ELSE IF Replaying THEN {sources.summaries_to_process} ELSE 0..MaxN
    /\ N' = summaries_to_process'
    /\ url' \in
          IF target # "import_meta_applications" THEN {url}
          ELSE IF Replaying THEN {sources.url} ELSE {None, "url"}
    /\ ClearLocals

\* the arguments of the call are command-line arguments: part of the sources
Called(target) ==
    sources' =
        IF ~Recording THEN sources
        ELSE IF target = "update_summaries"
             THEN [sources EXCEPT !.summaries_to_process = summaries_to_process']
        ELSE IF target = "import_meta_applications"
             THEN [sources EXCEPT !.url = url']
        ELSE sources

\* the pass returns normally
Return(step) ==
    /\ Goto(main_next(step))
    /\ Called(main_next(step))
    /\ exc' = None

\* an exception leaves the pass
Raise(step, e) ==
    /\ Goto(main_uncaught(step))
    /\ Called(main_uncaught(step))
    /\ exc' = e

\* a new process: parse_args, then the first pass is entered.  On fixed
\* sources the job is run without end (runs stops counting at MaxRuns), and a
\* run that raised is not repeated: it would raise again
main ==
    /\ pc \in {"idle", "exit", "raised"}
    /\ sources.fixed => pc # "raised"
    /\ runs < MaxRuns \/ sources.fixed
    /\ runs' = IF runs < MaxRuns THEN runs + 1 ELSE runs
    /\ session' = db
    /\ pc' = "import_koji_pkgs"
    /\ trace' = <<"import_koji_pkgs">>
    /\ exc' = None
    /\ summaries_to_process' = 0
    /\ N' = 0
    /\ url' = None
    /\ ClearLocals
    /\ db0' = db
    /\ UNCHANGED <<db, sources, other>>

\* ---- import_koji_pkgs ----

\* session.getPackageConfig(tag, package_id)
getPackageConfig(tag, package_id) ==
    IF tag = tagbp /\ package_id \in tagged THEN "config" ELSE None

\* log.info("Package %s is tagged ...") % name: log.info returns None and
\* None % name raises
log_skipped(name) == "TypeError"

\* mutants of koji_add: the lookup is dropped; the new row gets the sentinel
koji_add_always(sess, name) == add(sess, Package(name, ""))

koji_add_sentinel(sess, name) ==
    IF NoResultFound(sess, name) THEN add(sess, Package(name, NoSummary)) ELSE sess

\* mutant of koji_add: a package that is found has its summary reset
koji_add_upsert(sess, name) ==
    IF NoResultFound(sess, name) THEN add(sess, Package(name, ""))
    ELSE [k \in 1..Len(sess) |-> IF sess[k].name = name THEN Package(name, "") ELSE sess[k]]

\* try: by_name / except NoResultFound: SESSION.add(Package(name, u''))
koji_add(sess, name) ==
    IF NoResultFound(sess, name) THEN add(sess, Package(name, "")) ELSE sess

\* the loop of import_koji_pkgs from item k on, as one function: the session it
\* leaves and the exception that ended it, if any
RECURSIVE koji_loop(_, _, _)
koji_loop(sess, list, k) ==
    IF k > Len(list) THEN [session |-> sess, exc |-> None]
    ELSE LET package == list[k]
             name == to_unicode(package.package_name)
             pkg_tagstatus == getPackageConfig(tagbp, package.package_id)
         IN  IF pkg_tagstatus # None
             THEN [session |-> sess, exc |-> log_skipped(name)]
             ELSE koji_loop(koji_add(sess, name), list, k + 1)

\* what the hub said: the names listed, in order, and the listed ids it
\* reported a config for
listed(l) == [j \in 1..Len(l) |-> to_unicode(l[j].package_name)]

bypassed(l, t) == {l[j].package_id : j \in 1..Len(l)} \cap t

\* import koji, ClientSession, listPackages: the hub answers
import_koji_pkgs ==
    /\ pc = "import_koji_pkgs"
    /\ \E l \in SeqsUpTo(KojiPackages, MaxPackages), t \in SUBSET {package_ids[n] : n \in Names} :
          /\ Cardinality(t) <= MaxTagged
          /\ Replaying => listed(l) = sources.packages /\ bypassed(l, t) = sources.tagged
          /\ packages' = l
          /\ tagged' = t
          /\ sources' = IF Recording
                        THEN [sources EXCEPT !.packages = listed(l), !.tagged = bypassed(l, t)]
                        ELSE sources
    /\ pc' = "koji_loop"
    /\ UNCHANGED <<db, db0, session, trace, exc, summaries_to_process, url, yumq, selected, N, count, i, runs, other>>

\* a call to the hub raises: nothing in import_koji_pkgs catches it
import_koji_pkgs_unreachable ==
    /\ ~Replaying
    /\ \/ pc = "import_koji_pkgs"
       \/ pc = "koji_loop" /\ i < Len(packages)
    /\ Raise("import_koji_pkgs", "koji.GenericError")
    /\ UNCHANGED <<db, db0, session, runs, other>>

\* one iteration of: for package in packages
import_koji_pkgs_loop ==
    /\ pc = "koji_loop"
    /\ i < Len(packages)
    /\ LET package == packages[i + 1]
           name == to_unicode(package.package_name)
           pkg_tagstatus == getPackageConfig(tagbp, package.package_id)
       IN  IF pkg_tagstatus # None
           THEN /\ Raise("import_koji_pkgs", log_skipped(name))
                /\ UNCHANGED session
           ELSE /\ session' = koji_add(session, name)
                /\ count' = IF NoResultFound(session, name) THEN count + 1 ELSE count
                /\ i' = i + 1
                /\ UNCHANGED <<pc, trace, exc, summaries_to_process, url, packages, tagged, yumq, selected, N,
                               sources>>
    /\ UNCHANGED <<db, db0, runs, other>>

\* the list is exhausted: log the count and return
import_koji_pkgs_return ==
    /\ pc = "koji_loop"
    /\ i = Len(packages)
    /\ Return("import_koji_pkgs")
    /\ UNCHANGED <<db, db0, session, runs, other>>

\* ---- update_summaries ----

\* get_yum_query(require): None or an exception when yum cannot be imported
get_yum_query(require, installed) ==
    IF installed THEN "YumQuery"
    ELSE IF require THEN "ImportError" ELSE None

\* update_summaries calls get_yum_query() with no argument
require_default == TRUE

\* mutant of query: the filter is dropped
query_unfiltered(sess) == 1..Len(sess)

\* SESSION.query(Package).filter(Package.summary.in_([u'', u'(no summary)']))
query(sess) == {k \in 1..Len(sess) : sess[k].summary \in {"", NoSummary}}

\* query.all(): the selected rows in table order
RECURSIVE all(_, _)
all(sess, k) ==
    IF k > Len(sess) THEN <<>>
    ELSE (IF k \in query(sess) THEN <<k>> ELSE <<>>) \o all(sess, k + 1)

\* mutant of limit: 0 is taken as a limit like any other
limit_literal(n, total) == n

\* if N == 0: N = total
limit(n, total) == IF n = 0 THEN total ELSE n

\* mutant of quota_reached: the loop stops one success later
quota_reached_late(c, n) == c > n + 1

\* if count > N: break
quota_reached(c, n) == c > n

\* the summary assigned to the package: yum's, or the sentinel
new_summary(summary) == IF summary # "" THEN summary ELSE NoSummary

\* mutant of counted: every package looked up counts
counted_always(c, summary) == c + 1

\* count += 1, in the branch that got a summary
counted(c, summary) == IF summary # "" THEN c + 1 ELSE c

\* yum cannot be imported
update_summaries_no_yum ==
    /\ pc = "update_summaries"
    /\ ~Replaying
    /\ LET yq == get_yum_query(require_default, FALSE)
       IN  IF yq = "ImportError"
           THEN Raise("update_summaries", yq)
           ELSE Return("update_summaries")
    /\ UNCHANGED <<db, db0, session, runs, other>>

\* yum is there: build the query, count, set N
update_summaries ==
    /\ pc = "update_summaries"
    /\ get_yum_query(require_default, TRUE) = "YumQuery"
    /\ \E y \in [Names -> RawSummaries] :
          /\ Replaying => y = sources.yumq
          /\ yumq' = y
          /\ sources' = IF Recording THEN [sources EXCEPT !.yumq = y] ELSE sources
    /\ selected' = all(session, 1)
    /\ N' = limit(N, Cardinality(query(session)))
    /\ pc' = "summaries_loop"
    /\ UNCHANGED <<db, db0, session, trace, exc, summaries_to_process, url, packages, tagged, count, i, runs, other>>

\* one iteration of: for package in packages
update_summaries_loop ==
    /\ pc = "summaries_loop"
    /\ i < Len(selected)
    /\ LET package == selected[i + 1]
           summary == to_unicode(yumq[session[package].name])
       IN  /\ session' = [session EXCEPT ![package].summary = new_summary(summary)]
           /\ count' = counted(count, summary)
    /\ i' = i + 1
    /\ pc' = IF quota_reached(count', N) THEN "summaries_break" ELSE pc
    /\ UNCHANGED <<db, db0, trace, exc, summaries_to_process, url, packages, tagged, yumq, selected, N, runs,
                   sources, other>>

\* after the loop (exhausted or left by break): log and return
update_summaries_return ==
    /\ \/ pc = "summaries_loop" /\ i = Len(selected)
       \/ pc = "summaries_break"
    /\ Return("update_summaries")
    /\ UNCHANGED <<db, db0, session, runs, other>>

\* ---- import_meta_applications ----

\* mutant of import_meta_applications_no_url: the url is used before the test
import_meta_applications_no_url_raises ==
    /\ pc = "import_meta_applications"
    /\ url = None
    /\ Raise("import_meta_applications", "AttributeError")
    /\ UNCHANGED <<db, db0, session, runs, other>>

\* if not url: return
import_meta_applications_no_url ==
    /\ pc = "import_meta_applications"
    /\ url = None
    /\ Return("import_meta_applications")
    /\ UNCHANGED <<db, db0, session, runs, other>>

\* requests.get or yaml.load raises: logged, return
import_meta_applications_failed ==
    /\ pc = "import_meta_applications"
    /\ url # None
    /\ Replaying => sources.failed
    /\ Goto(main_next("import_meta_applications"))
    /\ exc' = None
    /\ sources' = IF Recording THEN [sources EXCEPT !.failed = TRUE] ELSE sources
    /\ UNCHANGED <<db, db0, session, runs, other>>

\* the document parses to something that is no sequence (None, a number):
\* the for statement raises outside the try block
import_meta_applications_not_iterable ==
    /\ pc = "import_meta_applications"
    /\ url # None
    /\ ~Replaying
    /\ Raise("import_meta_applications", "TypeError")
    /\ UNCHANGED <<db, db0, session, runs, other>>

\* the document parses to a list
import_meta_applications ==
    /\ pc = "import_meta_applications"
    /\ url # None
    /\ \E l \in SeqsUpTo(CuratedRecords, MaxRecords) :
          /\ Replaying => ~sources.failed /\ l = sources.doc
          /\ packages' = l
          /\ sources' = IF Recording THEN [sources EXCEPT !.doc = l] ELSE sources
    /\ pc' = "meta_loop"
    /\ UNCHANGED <<db, db0, session, trace, exc, summaries_to_process, url, tagged, yumq, selected, N, count, i, runs,
                   other>>

\* the exception one iteration raises, if any
meta_raises(sess, package) ==
    IF package.name = Missing THEN "KeyError"
    ELSE IF NoResultFound(sess, package.name) /\ package.summary = Missing THEN "KeyError"
    ELSE None

\* mutant of meta_add: a package that is found takes the curated summary
meta_add_overwrite(sess, package) ==
    IF NoResultFound(sess, package.name)
    THEN add(sess, Package(package.name, package.summary))
    ELSE [k \in 1..Len(sess) |->
            IF sess[k].name = package.name THEN Package(package.name, package.summary) ELSE sess[k]]

\* try: by_name / except NoResultFound: SESSION.add(Package(name, summary))
meta_add(sess, package) ==
    IF NoResultFound(sess, package.name)
    THEN add(sess, Package(package.name, package.summary))
    ELSE sess

\* one iteration of: for package in packages
import_meta_applications_loop ==
    /\ pc = "meta_loop"
    /\ i < Len(packages)
    /\ LET package == packages[i + 1]
       IN  IF meta_raises(session, package) # None
           THEN /\ Raise("import_meta_applications", meta_raises(session, package))
                /\ UNCHANGED session
           ELSE /\ session' = meta_add(session, package)
                /\ count' = IF NoResultFound(session, package.name) THEN count + 1 ELSE count
                /\ i' = i + 1
                /\ UNCHANGED <<pc, trace, exc, summaries_to_process, url, packages, tagged, yumq, selected, N,
                               sources>>
    /\ UNCHANGED <<db, db0, runs, other>>

import_meta_applications_return ==
    /\ pc = "meta_loop"
    /\ i = Len(packages)
    /\ Return("import_meta_applications")
    /\ UNCHANGED <<db, db0, session, runs, other>>

\* ---- ft.SESSION.commit() ----

\* what a commit writes to the table: the rows this session changed, by row,
\* then the rows it added; the table as the session left it when no other
\* process has committed since the session began
flush(table, table0, sess) ==
    [k \in 1..Len(table) |-> IF k <= Len(table0) /\ sess[k] # table0[k] THEN sess[k] ELSE table[k]]
        \o SubSeq(sess, Len(table0) + 1, Len(sess))

commit ==
    /\ pc = "commit"
    /\ db' = flush(db, db0, session)
    /\ Return("commit")
    /\ UNCHANGED <<db0, session, runs, other>>

Next ==
    \/ main
    \/ import_koji_pkgs
    \/ import_koji_pkgs_unreachable
    \/ import_koji_pkgs_loop
    \/ import_koji_pkgs_return
    \/ update_summaries_no_yum
    \/ update_summaries
    \/ update_summaries_loop
    \/ update_summaries_return
    \/ import_meta_applications_no_url
    \/ import_meta_applications_failed
    \/ import_meta_applications_not_iterable
    \/ import_meta_applications
    \/ import_meta_applications_loop
    \/ import_meta_applications_return
    \/ commit

Spec == Init /\ [][Next]_vars

\* ---- runs on unchanged sources ----

SpecRepeat == InitRepeat /\ [][Next]_vars

\* the job is run again and again (cron), and a run that has started goes on
SpecRepeatFair == SpecRepeat /\ WF_vars(Next)

\* ---- two processes of the job on one database ----

\* where a running process is taken off: main is between two statements, the
\* session has begun and the next statement reads or writes the table
SwitchPoints == {"import_koji_pkgs", "commit"}

\* the scheduler lets the other process step; each process has its own
\* session, begun when its main started.  A process taken off at a switch
\* point waits as it is; a process that is over gives way to the waiting one
\* and is gone
switch ==
    /\ \/ pc \in SwitchPoints
       \/ pc \notin SwitchPoints /\ other.pc \in SwitchPoints
    /\ pc \in SwitchPoints \cup {"idle", "exit", "raised"}
    /\ other' = IF pc \in SwitchPoints
                THEN [pc |-> pc, session |-> session, db0 |-> db0, trace |-> trace, exc |-> exc, url |-> url]
                ELSE Idle
    /\ pc' = other.pc
    /\ session' = other.session
    /\ db0' = other.db0
    /\ trace' = other.trace
    /\ exc' = other.exc
    /\ url' = other.url
    /\ UNCHANGED <<db, summaries_to_process, packages, tagged, yumq, selected, N, count, i, runs, sources>>

NextOverlap == Next \/ switch

SpecOverlap == Init /\ [][NextOverlap]_vars

\* ---- properties ----

IsReal(summary) == summary \notin {"", NoSummary}

NoDuplicates(table) ==
    \A j, k \in 1..Len(table) : table[j].name = table[k].name => j = k

KojiLoopDone == pc = "koji_loop" /\ i = Len(packages)

\* C1: in every reachable state the catalog, committed and as the session sees
\* it, holds at most one Package per name.
C1_OnePackagePerName == NoDuplicates(db) /\ NoDuplicates(session)

\* a second run whose koji list names one package twice (once as str, once as
\* unicode), the package having come from the curated list in an earlier run
C1_Witness ==
    /\ KojiLoopDone
    /\ Len(packages) = 2
    /\ packages[1].package_name # packages[2].package_name
    /\ to_unicode(packages[1].package_name) = to_unicode(packages[2].package_name)
    /\ \E k \in 1..Len(db) :
          /\ db[k] = Package(to_unicode(packages[1].package_name), "c")
          /\ by_name(session, db[k].name) = {k}

\* one step, as C2 has it
C2_Step ==
    /\ \A k \in 1..Len(db) :
          IsReal(db[k].summary) =>
              /\ k <= Len(db')
              /\ db'[k].name = db[k].name
              /\ IsReal(db'[k].summary)
    /\ pc # "raised" =>
          \A k \in 1..Len(session) :
              IsReal(session[k].summary) =>
                  /\ k <= Len(session')
                  /\ session'[k].name = session[k].name
                  /\ IsReal(session'[k].summary)

\* C2: a summary that is real stays real: in the committed table over every
\* step, and in the session over every step of a run that goes on.
C2_SummaryMonotone == [][C2_Step]_vars

\* a later run's backfill loop has gone through its selection while yum knows
\* nothing of a package whose committed summary is real
C2_Witness ==
    /\ pc = "summaries_loop"
    /\ i = Len(selected)
    /\ i > 0
    /\ \E k \in 1..Len(db) :
          /\ IsReal(db[k].summary)
          /\ to_unicode(yumq[db[k].name]) = ""
          /\ session[k] = db[k]

\* C3: when the loop of import_koji_pkgs has gone through koji's list, every
\* listed name without the bypass tag that the catalog lacked is a new row
\* with summary "", and the rows the catalog had are as they were.
C3_ImportNewPackages ==
    KojiLoopDone =>
        /\ Len(session) >= Len(db)
        /\ SubSeq(session, 1, Len(db)) = db
        /\ \A j \in 1..Len(packages) :
              LET name == to_unicode(packages[j].package_name)
              IN  (getPackageConfig(tagbp, packages[j].package_id) = None
                      /\ NoResultFound(db, name))
                  => \E k \in (Len(db) + 1)..Len(session) : session[k] = Package(name, "")

\* the list held a name the catalog had and a name it lacked
C3_Witness ==
    /\ KojiLoopDone
    /\ Len(db) > 0
    /\ Len(session) > Len(db)
    /\ \E j \in 1..Len(packages) : ~NoResultFound(db, to_unicode(packages[j].package_name))

\* one step, as C4 has it
C4_Step ==
    (/\ pc = "koji_loop"
     /\ i < Len(packages)
     /\ getPackageConfig(tagbp, packages[i + 1].package_id) # None
     /\ exc' # "koji.GenericError")
    => (/\ session' = session
        /\ pc' = "koji_loop"
        /\ packages' = packages
        /\ i' = i + 1)

\* C4: a package koji reports the bypass tag for is skipped: the loop adds
\* nothing for it and goes on to the next item of the list.
C4_BypassTaggedSkipped == [][C4_Step]_vars

\* C5: when the call to koji fails, the run is over: no later pass was
\* entered, no commit was issued, and the committed table is the one the run
\* started with.
C5_KojiUnreachableAborts ==
    exc = "koji.GenericError" =>
        /\ pc = "raised"
        /\ trace = <<"import_koji_pkgs">>
        /\ db = db0

\* koji failed in the middle of the list, in a run that started with a
\* non-empty catalog and had staged a new package
C5_Witness ==
    /\ exc = "koji.GenericError"
    /\ pc = "raised"
    /\ Len(db) > 0
    /\ Len(session) > Len(db)

MainOrder == <<"import_koji_pkgs", "update_summaries", "import_meta_applications", "commit">>

IsPrefix(s, t) == Len(s) <= Len(t) /\ s = SubSeq(t, 1, Len(s))

\* the statement of main a position belongs to
StepOf(p) ==
    CASE p = "koji_loop" -> "import_koji_pkgs"
      [] p \in {"summaries_loop", "summaries_break"} -> "update_summaries"
      [] p = "meta_loop" -> "import_meta_applications"
      [] OTHER -> p

\* C6: the statements of main are entered in the order import_koji_pkgs,
\* update_summaries, import_meta_applications, commit, each at most once per
\* run; the process ends normally only after the commit; the committed table
\* is the one the run started with until the commit has been done.
C6_OrderAndSingleCommit ==
    /\ IsPrefix(trace, MainOrder)
    /\ pc \notin {"idle", "exit", "raised"} => trace # <<>> /\ trace[Len(trace)] = StepOf(pc)
    /\ pc = "exit" => trace = MainOrder
    /\ db # db0 => pc = "exit"

\* a run that ended with a commit that changed the committed table
C6_Witness ==
    /\ pc = "exit"
    /\ trace = MainOrder
    /\ db # db0
    /\ Len(db0) > 0

\* one step, as C7 has it
C7_Step ==
    update_summaries_no_yum =>
        /\ exc' = None
        /\ session' = session
        /\ pc' = "import_meta_applications"

\* C7: when yum cannot be imported, update_summaries returns without raising
\* and without touching a Package, and main goes on to
\* import_meta_applications.
C7_NoYumReturns == [][C7_Step]_vars

\* one step, as C8 has it
C8_Step ==
    (\/ import_meta_applications_failed
     \/ import_meta_applications_not_iterable
     \/ /\ pc = "meta_loop"
        /\ i < Len(packages)
        /\ meta_raises(session, packages[i + 1]) # None)
    => (/\ exc' = None
        /\ session' = session
        /\ pc' = "commit")

\* C8: when the fetch or the parse fails, or the document is no list of
\* records with name and summary, import_meta_applications returns without
\* raising and without changing the catalog, and main goes on to the commit.
C8_CuratedFailureReturns == [][C8_Step]_vars

\* the loop of update_summaries is over: exhausted, or left by break
SummariesLoopDone ==
    \/ pc = "summaries_loop" /\ i = Len(selected)
    \/ pc = "summaries_break"

\* what yum returns for the Package in row k
YumSummary(k) == to_unicode(yumq[session[k].name])

\* C9: after the loop of update_summaries called with N = 0, no Package has
\* summary "", and every selected Package has yum's summary for its name, or
\* "(no summary)" when yum has none.
C9_UnlimitedBackfill ==
    (SummariesLoopDone /\ summaries_to_process = 0) =>
        /\ \A k \in 1..Len(session) : session[k].summary # ""
        /\ \A j \in 1..Len(selected) :
              session[selected[j]].summary =
                  IF YumSummary(selected[j]) # "" THEN YumSummary(selected[j]) ELSE NoSummary

\* N = 0, three selected, the first two found in yum and the third not
C9_Witness ==
    /\ SummariesLoopDone
    /\ summaries_to_process = 0
    /\ Len(selected) = 3
    /\ IsReal(session[selected[1]].summary)
    /\ IsReal(session[selected[2]].summary)
    /\ session[selected[3]].summary = NoSummary

\* the selected Packages the loop has assigned a real summary
Enriched == {j \in 1..i : YumSummary(selected[j]) # ""}

C11_BoundedWork ==
    (pc \in {"summaries_loop", "summaries_break"} /\ summaries_to_process > 0)
        => i <= summaries_to_process + 1

\* one iteration of the curated loop that does not raise, as C12 has it
C12_Step ==
    (pc = "meta_loop" /\ pc' = "meta_loop" /\ i' = i + 1) =>
        LET package == packages[i + 1]
        IN  IF \E k \in 1..Len(session) : session[k].name = package.name
            THEN session' = session
            ELSE session' = Append(session, [name |-> package.name, summary |-> package.summary])

\* C12: a curated record whose name the catalog already holds (committed
\* earlier or staged earlier in the same run) changes nothing and inserts
\* nothing; a record whose name is absent inserts one Package with the
\* record's name and summary verbatim.
C12_FirstWriterWins == [][C12_Step]_vars

\* two records consumed: the first names a package this run's koji pass staged
\* (summary still different from the curated one), the second a new name
C12_Witness ==
    /\ pc = "meta_loop"
    /\ i = 2
    /\ packages[1].summary = "c"
    /\ packages[2].name # packages[1].name
    /\ \E k \in (Len(db) + 1)..(Len(session) - 1) :
          session[k].name = packages[1].name /\ session[k].summary # "c"
    /\ session[Len(session)] = Package(packages[2].name, packages[2].summary)
    /\ NoResultFound(db, packages[2].name)

\* the catalog a run of import_koji_pkgs alone leaves behind: what the loop
\* staged, or the catalog as it was when the loop raised
ImportNewPackages(table, list) ==
    LET r == koji_loop(table, list, 1)
    IN  IF r.exc = None THEN r.session ELSE table

\* C13: import_koji_pkgs is idempotent: on the same list, a second run leaves
\* the catalog the first run left, and a bypass-tagged name is in neither
\* result unless it was in the catalog before.
C13_ImportIdempotent ==
    pc = "koji_loop" =>
        LET once == ImportNewPackages(db, packages)
            twice == ImportNewPackages(once, packages)
        IN  /\ twice = once
            /\ KojiLoopDone => session = once /\ ImportNewPackages(session, packages) = session
            /\ \A j \in 1..Len(packages) :
                  getPackageConfig(tagbp, packages[j].package_id) # None
                  => \A t \in {once, twice} :
                        NoResultFound(db, to_unicode(packages[j].package_name))
                        => NoResultFound(t, to_unicode(packages[j].package_name))

\* the pass has run over a list of two names, one new and one already there
C13_Witness ==
    /\ KojiLoopDone
    /\ Len(packages) = 2
    /\ Len(db) > 0
    /\ Len(session) = Len(db) + 1
    /\ \E j \in 1..2 : ~NoResultFound(db, to_unicode(packages[j].package_name))

\* the step import_meta_applications takes when it is called without a url
C14_Step ==
    (pc = "import_meta_applications" /\ url = None) =>
        /\ pc' = "commit"
        /\ exc' = None
        /\ packages' = <<>>
        /\ session' = session
        /\ db' = db

\* C14: without a url import_meta_applications fetches nothing and changes
\* nothing, and the run goes on to the commit with what the first two passes
\* staged.
C14_NoUrlReturns == [][C14_Step]_vars

\* a run without url has committed a package the koji pass added and the
\* backfill gave a summary
C14_Witness ==
    /\ pc = "exit"
    /\ url = None
    /\ trace = MainOrder
    /\ db = session
    /\ \E k \in (Len(db0) + 1)..Len(db) : db[k].summary # ""

KeepsRows(old, new) ==
    /\ Len(new) >= Len(old)
    /\ \A k \in 1..Len(old) : new[k].name = old[k].name

OnlyAdds(old, new) ==
    /\ Len(new) >= Len(old)
    /\ SubSeq(new, 1, Len(old)) = old

\* one step, as C16 has it; the step of main that starts a new process opens
\* a new session and is no step of a pass
C16_Step ==
    /\ KeepsRows(db, db')
    /\ pc \notin {"idle", "exit", "raised"} => KeepsRows(session, session')
    /\ StepOf(pc) \in {"import_koji_pkgs", "import_meta_applications"} => OnlyAdds(session, session')
    /\ StepOf(pc) = "update_summaries" =>
          /\ Len(session') = Len(session)
          /\ \A k \in 1..Len(session) :
                session'[k] # session[k] =>
                    /\ session'[k].name = session[k].name
                    /\ session[k].summary \in {"", NoSummary}
                    /\ \E j \in 1..Len(selected) : selected[j] = k

\* C16: no pass removes a Package or changes a name; import_koji_pkgs and
\* import_meta_applications only add Packages; update_summaries adds none and
\* changes only the summary of Packages it selected with "" or "(no summary)".
C16_LifecycleFrame == [][C16_Step]_vars

\* a later run: the koji pass has added a package and the backfill has
\* replaced the sentinel of a committed one
C16_Witness ==
    /\ SummariesLoopDone
    /\ Len(session) > Len(db)
    /\ \E k \in 1..Len(db) : db[k].summary = NoSummary /\ IsReal(session[k].summary)

\* the step that brings the first duplicate into the committed table is the
\* commit of a run under which the table has changed
C15_Step ==
    (NoDuplicates(db) /\ ~NoDuplicates(db')) => (pc = "commit" /\ db # db0 /\ NoDuplicates(session))

\* C15: lookup-then-insert is not atomic: when two runs overlap on one
\* database both can find a name absent and both insert it, so a catalog with
\* two Packages of one name is reachable; a duplicate only ever comes from the
\* commit of a run during which another run has committed.
C15_DuplicatesNeedOverlap == [][C15_Step]_vars

\* both runs found the name absent and both inserted it
C15_Witness ==
    /\ pc = "exit"
    /\ db0 = <<>>
    /\ NoDuplicates(session)
    /\ Len(session) > 0
    /\ \E j, k \in 1..Len(db) : j < k /\ db[j].name = db[k].name /\ session[1].name = db[k].name

\* C17 as stated: on unchanged sources a second run leaves the committed
\* catalog as the first run left it, for every N.
C17_RunIdempotent ==
    (sources.fixed /\ pc = "exit" /\ runs > 1) => db = db0

\* a later run on the sources of the first run has committed
Rerun == sources.fixed /\ pc = "exit" /\ runs > 1 /\ trace = MainOrder

\* C17: on unchanged sources a second run leaves the committed catalog as the
\* first run left it when the quota is unlimited (N = 0) and no curated
\* record came in with "" or "(no summary)" as its summary.
C17_UnlimitedRunIdempotent ==
    ( /\ Rerun
      /\ sources.summaries_to_process = 0
      /\ \A k \in 1..Len(db0), j \in 1..Len(sources.doc) :
            db0[k] = Package(sources.doc[j].name, sources.doc[j].summary) => IsReal(db0[k].summary) )
        => db = db0

\* the second unlimited run had the koji list, a sentinel to look up again and
\* a curated package with a summary of its own before it
C17_Witness ==
    /\ Rerun
    /\ sources.summaries_to_process = 0
    /\ db = db0
    /\ Len(sources.packages) > 0
    /\ \E k \in 1..Len(db) : db[k].summary = NoSummary
    /\ \E k \in 1..Len(db) : IsReal(db[k].summary) /\ db[k].summary = to_unicode(sources.yumq[db[k].name])
    /\ \E k \in 1..Len(db), j \in 1..Len(sources.doc) :
          db[k] = Package(sources.doc[j].name, "c")

\* yum's summary for the name, on fixed sources
FixedSummary(n) == to_unicode(sources.yumq[n])

\* a run on fixed sources has committed
Committed == sources.fixed /\ pc = "exit"

\* every committed Package yum has a summary for holds that summary
AllKnownHold ==
    \A k \in 1..Len(db) : FixedSummary(db[k].name) # "" => db[k].summary = FixedSummary(db[k].name)

\* every committed Package without a real summary is one yum has nothing for
NoneWaiting ==
    \A k \in 1..Len(db) : ~IsReal(db[k].summary) => FixedSummary(db[k].name) = ""

\* C18 as stated: under repeated runs on a fixed yum and N, every Package
\* whose name yum has a summary for comes to hold that summary.
C18_EveryKnownPackageEnriched == Committed ~> (Committed /\ AllKnownHold)

\* C18: the sentinel keeps a Package selected, a Package yum has nothing for
\* does not count against the quota, and under repeated runs on fixed sources
\* every Package without a real summary whose name yum has a summary for
\* comes to hold that summary.
C18_NoStarvation ==
    /\ [](pc = "summaries_loop" /\ i = 0 =>
            \A k \in 1..Len(session) :
                session[k].summary = NoSummary => \E j \in 1..Len(selected) : selected[j] = k)
    /\ [](pc \in {"summaries_loop", "summaries_break"} => count = Cardinality(Enriched))
    /\ Committed ~> (Committed /\ NoneWaiting)

\* a second run under quota 1 has given a package its summary that the first
\* run left without one, behind a package that holds the sentinel
C18_Witness ==
    /\ Rerun
    /\ sources.summaries_to_process = 1
    /\ \E j, k \in 1..Len(db) :
          /\ j < k
          /\ db[j].summary = NoSummary
          /\ k <= Len(db0)
          /\ ~IsReal(db0[k].summary)
          /\ db[k].summary = FixedSummary(db[k].name)
          /\ NoneWaiting

====
